---- MODULE Spec2Model ----
(***************************************************************************)
(* Model of the mechanic / service-ticket REST service.                    *)
(*                                                                         *)
(* State: the relational store (tables mechanic, service_ticket and the    *)
(* association table ticket_mechanic), the request in flight and the       *)
(* response produced for it.  A request is received, served by the view    *)
(* the URL map dispatches it to (one atomic step: requests are handled one *)
(* at a time and the session is request scoped), and answered.             *)
(*                                                                         *)
(* The database outlives the process (app.py only creates missing tables), *)
(* so the initial store is any content that satisfies the declared         *)
(* constraints.                                                            *)
(*                                                                         *)
(* Strings are tokens with a length given by StrLen.  Request bodies are   *)
(* JSON objects over the fields of the schema they are loaded by.          *)
(*                                                                         *)
(* The association table declares no key, so it is a bag of rows.  pre is  *)
(* a history variable: the store as the request in flight found it.        *)
(*                                                                         *)
(* SpecConcurrent is the same service with two requests in flight, each in *)
(* a session and a transaction of its own: workers holds what each request *)
(* has loaded, and a view is split where it reads and where it commits.    *)
(***************************************************************************)
EXTENDS Integers, FiniteSets, Sequences, Bags, TLC

VARIABLES db, req, resp, pre, workers

vars == <<db, req, resp, pre, workers>>

----------------------------------------------------------------------------
(* Bounds of the model *)

MaxMechanicId == 2
MaxTicketId == 2

MechanicIds == 1..MaxMechanicId
TicketIds == 1..MaxTicketId

----------------------------------------------------------------------------
(* models.py: column declarations *)

name_length == 255
email_length == 360
description_length == 300

Mechanic_columns_not_unique ==
    [id    |-> [type |-> "Integer", primary_key |-> TRUE,  nullable |-> FALSE,
                unique |-> FALSE, default |-> {}, length |-> {}],
     name  |-> [type |-> "String",  primary_key |-> FALSE, nullable |-> FALSE,
                unique |-> FALSE, default |-> {}, length |-> {name_length}],
     email |-> [type |-> "String",  primary_key |-> FALSE, nullable |-> FALSE,
                unique |-> FALSE, default |-> {}, length |-> {email_length}]]

Mechanic_columns ==
    [id    |-> [type |-> "Integer", primary_key |-> TRUE,  nullable |-> FALSE,
                unique |-> FALSE, default |-> {}, length |-> {}],
     name  |-> [type |-> "String",  primary_key |-> FALSE, nullable |-> FALSE,
                unique |-> FALSE, default |-> {}, length |-> {name_length}],
     email |-> [type |-> "String",  primary_key |-> FALSE, nullable |-> FALSE,
                unique |-> TRUE,  default |-> {}, length |-> {email_length}]]

ServiceTicket_columns ==
    [id          |-> [type |-> "Integer", primary_key |-> TRUE,  nullable |-> FALSE,
                      unique |-> FALSE, default |-> {}, length |-> {}],
     description |-> [type |-> "String",  primary_key |-> FALSE, nullable |-> FALSE,
                      unique |-> FALSE, default |-> {}, length |-> {description_length}],
     status      |-> [type |-> "String",  primary_key |-> FALSE, nullable |-> FALSE,
                      unique |-> FALSE, default |-> {"open"}, length |-> {}]]

(* ServiceTicket.mechanics: many-to-many through ticket_mechanic *)
ServiceTicket_relationships ==
    [mechanics |-> [direction |-> "MANYTOMANY", uselist |-> TRUE,
                    secondary |-> "ticket_mechanic", target |-> "Mechanic"]]

Mechanic_relationships ==
    [tickets |-> [direction |-> "MANYTOMANY", uselist |-> TRUE,
                  secondary |-> "ticket_mechanic", target |-> "ServiceTicket"]]

----------------------------------------------------------------------------
(* Values *)

ShortNames == {"Jo"}
Names == ShortNames \cup {"n*255", "n*256"}
ShortEmails == {"jo@x.com", "al@x.com"}
Emails == ShortEmails \cup {"e*361"}
ShortDescriptions == {"brake repair"}
Descriptions == ShortDescriptions \cup {"d*300", "d*301"}
Statuses == {"open", "closed"}

(* len(value) *)
StrLen(s) ==
    CASE s = "Jo" -> 2
      [] s = "n*255" -> name_length
      [] s = "n*256" -> name_length + 1
      [] s = "jo@x.com" -> 8
      [] s = "al@x.com" -> 8
      [] s = "e*361" -> email_length + 1
      [] s = "brake repair" -> 12
      [] s = "d*300" -> description_length
      [] s = "d*301" -> description_length + 1
      [] s = "open" -> 4
      [] s = "closed" -> 6

Restrict(f, D) == [k \in D |-> f[k]]

Range(list) == {list[i] : i \in DOMAIN list}

(* request.json: a JSON object with any subset of the column fields *)
MechanicPayloads ==
    {Restrict(f, D) : f \in [id : {1}, name : Names, email : Emails],
                      D \in SUBSET {"id", "name", "email"}}

(* the mechanics field, when a payload has it, is the empty list *)
MechanicLists == {<<>>}

TicketPayloads ==
    {Restrict(f, D) : f \in [id : {1}, description : Descriptions, status : Statuses,
                             mechanics : MechanicLists],
                      D \in SUBSET {"id", "description", "status", "mechanics"}}

EmptyBody == Restrict([id |-> 1], {})

----------------------------------------------------------------------------
(* marshmallow_sqlalchemy/convert.py: fields generated from the columns *)

is_auto_increment(column) == column.primary_key /\ column.type = "Integer"

has_default(column) == column.default # {} \/ is_auto_increment(column)

(* _add_column_kwargs with the length validator dropped *)
add_column_kwargs_no_length(column) ==
    [type       |-> column.type,
     allow_none |-> column.nullable,
     required   |-> ~column.nullable /\ ~has_default(column),
     max        |-> {}]

(* _add_column_kwargs: required, allow_none and the Length(max=...) validator *)
add_column_kwargs(column) ==
    [type       |-> column.type,
     allow_none |-> column.nullable,
     required   |-> ~column.nullable /\ ~has_default(column),
     max        |-> column.length]

(* property2field of a relationship: a to-many relationship becomes a list  *)
(* of related keys, built with the base keyword arguments only              *)
relationship2field(prop) ==
    [type       |-> IF prop.uselist THEN "RelatedList" ELSE "Related",
     allow_none |-> FALSE,
     required   |-> FALSE,
     max        |-> {}]

(* fields_for_model: a field per column, and per relationship when          *)
(* include_relationships is set                                             *)
fields_for_model(columns, relationships, include_relationships) ==
    LET keys == DOMAIN columns \cup
                (IF include_relationships THEN DOMAIN relationships ELSE {})
    IN  [k \in keys |-> IF k \in DOMAIN columns THEN add_column_kwargs(columns[k])
                        ELSE relationship2field(relationships[k])]

----------------------------------------------------------------------------
(* schemas.py *)

MechanicSchema ==
    [model |-> "Mechanic", load_instance |-> TRUE, include_relationships |-> FALSE,
     fields |-> fields_for_model(Mechanic_columns, Mechanic_relationships, FALSE)]

(* ServiceTicketSchema without load_instance: load returns the data *)
ServiceTicketSchema_load_dict ==
    [model |-> "ServiceTicket", load_instance |-> FALSE, include_relationships |-> TRUE,
     fields |-> fields_for_model(ServiceTicket_columns, ServiceTicket_relationships, TRUE)]

ServiceTicketSchema ==
    [model |-> "ServiceTicket", load_instance |-> TRUE, include_relationships |-> TRUE,
     fields |-> fields_for_model(ServiceTicket_columns, ServiceTicket_relationships, TRUE)]

----------------------------------------------------------------------------
(* Deserialization: marshmallow's field validation, then                   *)
(* load_instance_mixin.py's post_load hook                                 *)

(* the session a schema deserializes with: the extension's placeholder     *)
(* object, or the application's scoped session.  Which one is bound is     *)
(* decided outside these sources, so a request may meet either.  A view    *)
(* that raises never commits, and the request-scoped session is discarded  *)
(* with the request: what it held does not reach the store.                *)
SessionKinds == {"placeholder", "scoped"}

(* messages of one field of the payload *)
field_messages(field, data, k) ==
    IF k \notin DOMAIN data
    THEN IF field.required THEN {"Missing data for required field."} ELSE {}
    ELSE IF field.type = "String" /\ \E n \in field.max : StrLen(data[k]) > n
         THEN {"Longer than maximum length."}
         ELSE {}

(* err.messages: field -> messages, for the fields that have any *)
validation_messages(schema, data) ==
    LET bad == {k \in DOMAIN schema.fields :
                   field_messages(schema.fields[k], data, k) # {}}
    IN  [k \in bad |-> field_messages(schema.fields[k], data, k)]

(* get_instance: a primary key in the data is looked up through the session *)
get_instance(data, session) ==
    IF "id" \in DOMAIN data
    THEN IF session = "placeholder" THEN "AttributeError" ELSE "looked up"
    ELSE "None"

(* make_instance returning the data whatever load_instance says *)
make_instance_returns_data(schema, data, session) ==
    [raised |-> "none", mapping |-> TRUE, attrs |-> data]

(* make_instance: the data itself unless load_instance, else a model instance *)
make_instance(schema, data, session) ==
    IF ~schema.load_instance
    THEN [raised |-> "none", mapping |-> TRUE, attrs |-> data]
    ELSE IF get_instance(data, session) = "AttributeError"
         THEN [raised |-> "AttributeError", mapping |-> FALSE, attrs |-> data]
         ELSE [raised |-> "none", mapping |-> FALSE, attrs |-> data]

(* schema.load(request.json) *)
load(schema, data, session) ==
    IF DOMAIN validation_messages(schema, data) # {}
    THEN [raised |-> "ValidationError", mapping |-> FALSE, attrs |-> data]
    ELSE make_instance(schema, data, session)

----------------------------------------------------------------------------
(* The relational store *)

StoredMechanics ==
    UNION {[S -> [name : ShortNames, email : ShortEmails]] : S \in SUBSET MechanicIds}

StoredTickets ==
    UNION {[S -> [description : ShortDescriptions, status : Statuses]] :
              S \in SUBSET TicketIds}

(* unique=True on a column of the mechanic table *)
unique_ok(mechanic) ==
    \A k \in DOMAIN Mechanic_columns :
        Mechanic_columns[k].unique =>
            \A i, j \in DOMAIN mechanic : i # j => mechanic[i][k] # mechanic[j][k]

(* the foreign keys of ticket_mechanic *)
foreign_keys_ok(d) ==
    \A row \in BagToSet(d.ticket_mechanic) :
        row[1] \in DOMAIN d.service_ticket /\ row[2] \in DOMAIN d.mechanic

constraints_ok(d) == unique_ok(d.mechanic) /\ foreign_keys_ok(d)

(* the association tables the views leave behind: a pair is held once *)
StoredAssignments == {SetToBag(S) : S \in SUBSET (TicketIds \X MechanicIds)}

Databases ==
    {d \in [mechanic : StoredMechanics, service_ticket : StoredTickets,
            ticket_mechanic : StoredAssignments] : constraints_ok(d)}

(* DELETE FROM ticket_mechanic WHERE the row is one of rows: every copy goes *)
delete_rows(table, rows) == [r \in DOMAIN table \ rows |-> table[r]]

(* the rows of the table with every row r replaced by ren[r], ren one to one *)
rename_rows(table, ren) ==
    [q \in {ren[r] : r \in DOMAIN table} |->
        table[CHOOSE r \in DOMAIN table : ren[r] = q]]

(* ticket.mechanics as the relationship loads it: each related mechanic once *)
ticket_mechanics(d, ticket_id) ==
    {r[2] : r \in {q \in BagToSet(d.ticket_mechanic) : q[1] = ticket_id}}

(* Mechanic.tickets reading the columns of the association table crosswise *)
mechanic_tickets_crosswise(d, mechanic_id) ==
    {r[2] : r \in {q \in BagToSet(d.ticket_mechanic) : q[1] = mechanic_id}}

(* mechanic.tickets as the relationship loads it *)
mechanic_tickets(d, mechanic_id) ==
    {r[1] : r \in {q \in BagToSet(d.ticket_mechanic) : q[2] = mechanic_id}}

(* the flush of a changed ticket.mechanics: the collection is compared by    *)
(* identity with the one that was loaded; one row is inserted per mechanic   *)
(* that was not in it and the rows of a mechanic no longer in it are deleted *)
flush_mechanics(table, ticket_id, loaded, current) ==
    LET added   == {m \in current : m \notin loaded}
        deleted == {m \in loaded : m \notin current}
        kept    == delete_rows(table, {<<ticket_id, m>> : m \in deleted})
    IN  kept (+) SetToBag({<<ticket_id, m>> : m \in added})

Max(S) == CHOOSE x \in S : \A y \in S : y <= x
Min(S) == CHOOSE x \in S : \A y \in S : x <= y

(* the id the store assigns to a row inserted without one *)
next_id(table) == IF DOMAIN table = {} THEN 1 ELSE Max(DOMAIN table) + 1

(* a commit on a store that does not check the foreign keys *)
commit_without_foreign_keys(d, pending) ==
    IF unique_ok(pending.mechanic)
    THEN [raised |-> "none", db |-> pending]
    ELSE [raised |-> "IntegrityError", db |-> d]

(* db.session.commit(): the pending state is written unless a constraint fails *)
commit(d, pending) ==
    IF constraints_ok(pending)
    THEN [raised |-> "none", db |-> pending]
    ELSE [raised |-> "IntegrityError", db |-> d]

----------------------------------------------------------------------------
(* Responses *)

NoResponse == [status |-> 0, raised |-> "none", body |-> [kind |-> "none"]]

response(status, body) == [status |-> status, raised |-> "none", body |-> body]

(* an exception that leaves the view: the server's 500 page *)
internal_server_error(exc) == [status |-> 500, raised |-> exc, body |-> [kind |-> "html"]]

(* jsonify(err.messages) *)
messages_body(schema, data) ==
    [kind |-> "messages", messages |-> validation_messages(schema, data)]

error_body(text) == [kind |-> "error", error |-> text]

(* mechanic_schema.jsonify(mechanic) *)
dump_mechanic(d, id) ==
    [kind |-> "mechanic", id |-> id,
     name |-> d.mechanic[id].name, email |-> d.mechanic[id].email]

(* service_ticket_schema.jsonify(ticket): the relationship is dumped as ids *)
dump_ticket(d, id) ==
    [kind |-> "service_ticket", id |-> id,
     description |-> d.service_ticket[id].description,
     status |-> d.service_ticket[id].status,
     mechanics |-> ticket_mechanics(d, id)]

----------------------------------------------------------------------------
(* blueprints/mechanic/routes.py: the views.  A view maps the store, its   *)
(* URL arguments and request.json to the store it leaves and its response. *)

(* the Mechanic constructor over the data as keyword arguments: an explicit *)
(* id is kept, else the store assigns one                                   *)
new_mechanic(d, data) ==
    [id   |-> IF "id" \in DOMAIN data.attrs THEN data.attrs.id ELSE next_id(d.mechanic),
     row  |-> [name |-> data.attrs.name, email |-> data.attrs.email]]

insert_mechanic(d, m) ==
    IF m.id \in DOMAIN d.mechanic
    THEN [raised |-> "IntegrityError", db |-> d]
    ELSE commit(d, [d EXCEPT !.mechanic =
                        [i \in DOMAIN d.mechanic \cup {m.id} |->
                            IF i = m.id THEN m.row ELSE d.mechanic[i]]])

(* create_mechanic persisting the payload whatever load returned and        *)
(* whatever the store holds                                                 *)
create_mechanic_unchecked(d, json, session) ==
    LET data == load(MechanicSchema, json, session)
        id   == next_id(d.mechanic)
        d2   == [d EXCEPT !.mechanic =
                    [i \in DOMAIN d.mechanic \cup {id} |->
                        IF i = id THEN [name |-> json.name, email |-> json.email]
                        ELSE d.mechanic[i]]]
    IN  IF data.raised = "ValidationError"
        THEN [db |-> d, resp |-> response(400, messages_body(MechanicSchema, json))]
        ELSE [db |-> d2, resp |-> response(201, dump_mechanic(d2, id))]

create_mechanic(d, json, session) ==
    LET data == load(MechanicSchema, json, session)
    IN  IF data.raised = "ValidationError"
        THEN [db |-> d, resp |-> response(400, messages_body(MechanicSchema, json))]
        ELSE IF data.raised # "none"
        THEN [db |-> d, resp |-> internal_server_error(data.raised)]
        ELSE IF ~data.mapping
        THEN [db |-> d, resp |-> internal_server_error("TypeError")]
        ELSE LET m   == new_mechanic(d, data)
                 out == insert_mechanic(d, m)
             IN  IF out.raised # "none"
                 THEN [db |-> d, resp |-> internal_server_error(out.raised)]
                 ELSE [db |-> out.db, resp |-> response(201, dump_mechanic(out.db, m.id))]

(* Mechanic.query.all(): Mechanic derives from Base, a declarative base that *)
(* defines no query attribute, so the attribute lookup raises                *)
get_mechanics(d) ==
    [db |-> d, resp |-> internal_server_error("AttributeError")]

get_mechanic(d, mechanic_id) ==
    IF mechanic_id \notin DOMAIN d.mechanic
    THEN [db |-> d, resp |-> response(404, error_body("Mechanic not found."))]
    ELSE [db |-> d, resp |-> response(200, dump_mechanic(d, mechanic_id))]

(* setattr(mechanic, key, value) for every key of the loaded data *)
set_mechanic_attrs(d, mechanic_id, attrs) ==
    LET id  == IF "id" \in DOMAIN attrs THEN attrs.id ELSE mechanic_id
        row == [k \in {"name", "email"} |->
                   IF k \in DOMAIN attrs THEN attrs[k] ELSE d.mechanic[mechanic_id][k]]
    IN  [id |-> id,
         collides |-> id # mechanic_id /\ id \in DOMAIN d.mechanic,
         db |-> [d EXCEPT
                   !.mechanic = [i \in (DOMAIN d.mechanic \ {mechanic_id}) \cup {id} |->
                                    IF i = id THEN row ELSE d.mechanic[i]],
                   !.ticket_mechanic =
                       rename_rows(@, [r \in DOMAIN @ |->
                           <<r[1], IF r[2] = mechanic_id THEN id ELSE r[2]>>])]]

update_mechanic(d, mechanic_id, json, session) ==
    IF mechanic_id \notin DOMAIN d.mechanic
    THEN [db |-> d, resp |-> response(404, error_body("Mechanic not found."))]
    ELSE LET data == load(MechanicSchema, json, session)
         IN  IF data.raised = "ValidationError"
             THEN [db |-> d, resp |-> response(400, messages_body(MechanicSchema, json))]
             ELSE IF data.raised # "none"
             THEN [db |-> d, resp |-> internal_server_error(data.raised)]
             ELSE IF ~data.mapping
             THEN [db |-> d, resp |-> internal_server_error("AttributeError")]
             ELSE LET upd == set_mechanic_attrs(d, mechanic_id, data.attrs)
                      out == IF upd.collides
                             THEN [raised |-> "IntegrityError", db |-> d]
                             ELSE commit(d, upd.db)
                  IN  IF out.raised # "none"
                      THEN [db |-> d, resp |-> internal_server_error(out.raised)]
                      ELSE [db |-> out.db,
                            resp |-> response(200, dump_mechanic(out.db, upd.id))]

(* db.session.delete(mechanic); db.session.commit() for a mechanic that was  *)
(* loaded: the association rows of the tickets the flush finds in           *)
(* mechanic.tickets go with the row.  An association row that is no longer  *)
(* there makes the flush fail; a mechanic row that is no longer there is    *)
(* only warned about                                                        *)
delete_loaded_mechanic(d, mechanic_id, tickets) ==
    LET rows == {<<t, mechanic_id>> : t \in tickets}
        out  == commit(d, [d EXCEPT
                   !.mechanic = [i \in DOMAIN d.mechanic \ {mechanic_id} |->
                                    d.mechanic[i]],
                   !.ticket_mechanic = delete_rows(@, rows)])
    IN  IF ~(rows \subseteq BagToSet(d.ticket_mechanic))
        THEN [db |-> d, resp |-> internal_server_error("StaleDataError")]
        ELSE IF out.raised # "none"
        THEN [db |-> d, resp |-> internal_server_error(out.raised)]
        ELSE [db |-> out.db,
              resp |-> response(200, [kind |-> "message", message |-> "deleted",
                                      id |-> mechanic_id])]

(* delete_mechanic deleting the mechanic row alone, on a store that does not *)
(* check the foreign keys                                                   *)
delete_mechanic_rows_kept(d, mechanic_id) ==
    IF mechanic_id \notin DOMAIN d.mechanic
    THEN [db |-> d, resp |-> response(404, error_body("Mechanic not found."))]
    ELSE [db |-> [d EXCEPT !.mechanic = [i \in DOMAIN d.mechanic \ {mechanic_id} |->
                                           d.mechanic[i]]],
          resp |-> response(200, [kind |-> "message", message |-> "deleted",
                                  id |-> mechanic_id])]

(* delete_mechanic answering without db.session.commit() *)
delete_mechanic_uncommitted(d, mechanic_id) ==
    IF mechanic_id \notin DOMAIN d.mechanic
    THEN [db |-> d, resp |-> response(404, error_body("Mechanic not found."))]
    ELSE [db |-> d,
          resp |-> response(200, [kind |-> "message", message |-> "deleted",
                                  id |-> mechanic_id])]

(* db.session.delete(mechanic): the row and its association rows go *)
delete_mechanic(d, mechanic_id) ==
    IF mechanic_id \notin DOMAIN d.mechanic
    THEN [db |-> d, resp |-> response(404, error_body("Mechanic not found."))]
    ELSE delete_loaded_mechanic(d, mechanic_id, mechanic_tickets(d, mechanic_id))

----------------------------------------------------------------------------
(* blueprints/service_ticket/routes.py: the views *)

(* the ServiceTicket constructor over the data as keyword arguments; the    *)
(* column default fills a status that was not supplied                      *)
new_ticket(d, data) ==
    [id  |-> IF "id" \in DOMAIN data.attrs THEN data.attrs.id
             ELSE next_id(d.service_ticket),
     row |-> [description |-> data.attrs.description,
              status |-> IF "status" \in DOMAIN data.attrs THEN data.attrs.status
                         ELSE CHOOSE v \in ServiceTicket_columns.status.default : TRUE],
     mechanics |-> IF "mechanics" \in DOMAIN data.attrs
                   THEN Range(data.attrs.mechanics) ELSE {}]

insert_ticket(d, t) ==
    IF t.id \in DOMAIN d.service_ticket
    THEN [raised |-> "IntegrityError", db |-> d]
    ELSE commit(d, [d EXCEPT
                      !.service_ticket =
                          [i \in DOMAIN d.service_ticket \cup {t.id} |->
                              IF i = t.id THEN t.row ELSE d.service_ticket[i]],
                      !.ticket_mechanic = flush_mechanics(@, t.id, {}, t.mechanics)])

create_ticket(d, json, session) ==
    LET data == load(ServiceTicketSchema, json, session)
    IN  IF data.raised = "ValidationError"
        THEN [db |-> d, resp |-> response(400, messages_body(ServiceTicketSchema, json))]
        ELSE IF data.raised # "none"
        THEN [db |-> d, resp |-> internal_server_error(data.raised)]
        ELSE IF ~data.mapping
        THEN [db |-> d, resp |-> internal_server_error("TypeError")]
        ELSE LET t   == new_ticket(d, data)
                 out == insert_ticket(d, t)
             IN  IF out.raised # "none"
                 THEN [db |-> d, resp |-> internal_server_error(out.raised)]
                 ELSE [db |-> out.db, resp |-> response(201, dump_ticket(out.db, t.id))]

get_tickets(d) ==
    [db |-> d,
     resp |-> response(200, [kind |-> "list",
                             items |-> {dump_ticket(d, i) : i \in DOMAIN d.service_ticket}])]

get_ticket(d, ticket_id) ==
    IF ticket_id \notin DOMAIN d.service_ticket
    THEN [db |-> d, resp |-> response(404, error_body("Service ticket not found."))]
    ELSE [db |-> d, resp |-> response(200, dump_ticket(d, ticket_id))]

(* update_ticket storing a new record built from the payload in place of the *)
(* ticket: a status the payload omits is filled by the column default       *)
update_ticket_replace(d, ticket_id, json, session) ==
    IF ticket_id \notin DOMAIN d.service_ticket
    THEN [db |-> d, resp |-> response(404, error_body("Service ticket not found."))]
    ELSE IF DOMAIN validation_messages(ServiceTicketSchema, json) # {}
    THEN [db |-> d, resp |-> response(400, messages_body(ServiceTicketSchema, json))]
    ELSE LET row == [description |-> json.description,
                     status |-> IF "status" \in DOMAIN json THEN json.status
                                ELSE CHOOSE v \in ServiceTicket_columns.status.default : TRUE]
             out == commit(d, [d EXCEPT !.service_ticket[ticket_id] = row])
         IN  [db |-> out.db, resp |-> response(200, dump_ticket(out.db, ticket_id))]

(* setattr(ticket, key, value) for every key of the loaded data *)
set_ticket_attrs(d, ticket_id, attrs) ==
    LET id  == IF "id" \in DOMAIN attrs THEN attrs.id ELSE ticket_id
        row == [k \in {"description", "status"} |->
                   IF k \in DOMAIN attrs THEN attrs[k] ELSE d.service_ticket[ticket_id][k]]
        set == IF "mechanics" \in DOMAIN attrs
               THEN flush_mechanics(d.ticket_mechanic, ticket_id,
                                    ticket_mechanics(d, ticket_id), Range(attrs.mechanics))
               ELSE d.ticket_mechanic
    IN  [id |-> id,
         collides |-> id # ticket_id /\ id \in DOMAIN d.service_ticket,
         db |-> [d EXCEPT
                   !.service_ticket =
                       [i \in (DOMAIN d.service_ticket \ {ticket_id}) \cup {id} |->
                           IF i = id THEN row ELSE d.service_ticket[i]],
                   !.ticket_mechanic =
                       rename_rows(set, [r \in DOMAIN set |->
                           <<IF r[1] = ticket_id THEN id ELSE r[1], r[2]>>])]]

update_ticket(d, ticket_id, json, session) ==
    IF ticket_id \notin DOMAIN d.service_ticket
    THEN [db |-> d, resp |-> response(404, error_body("Service ticket not found."))]
    ELSE LET data == load(ServiceTicketSchema, json, session)
         IN  IF data.raised = "ValidationError"
             THEN [db |-> d,
                   resp |-> response(400, messages_body(ServiceTicketSchema, json))]
             ELSE IF data.raised # "none"
             THEN [db |-> d, resp |-> internal_server_error(data.raised)]
             ELSE IF ~data.mapping
             THEN [db |-> d, resp |-> internal_server_error("AttributeError")]
             ELSE LET upd == set_ticket_attrs(d, ticket_id, data.attrs)
                      out == IF upd.collides
                             THEN [raised |-> "IntegrityError", db |-> d]
                             ELSE commit(d, upd.db)
                  IN  IF out.raised # "none"
                      THEN [db |-> d, resp |-> internal_server_error(out.raised)]
                      ELSE [db |-> out.db,
                            resp |-> response(200, dump_ticket(out.db, upd.id))]

(* delete_ticket with the relationship cascading the delete to the mechanics *)
delete_ticket_cascade(d, ticket_id) ==
    IF ticket_id \notin DOMAIN d.service_ticket
    THEN [db |-> d, resp |-> response(404, error_body("Service ticket not found."))]
    ELSE LET gone == ticket_mechanics(d, ticket_id)
             rows == {r \in DOMAIN d.ticket_mechanic : r[1] = ticket_id \/ r[2] \in gone}
             out  == commit(d, [d EXCEPT
                        !.service_ticket = [i \in DOMAIN d.service_ticket \ {ticket_id} |->
                                               d.service_ticket[i]],
                        !.mechanic = [i \in DOMAIN d.mechanic \ gone |-> d.mechanic[i]],
                        !.ticket_mechanic = delete_rows(@, rows)])
         IN  [db |-> out.db,
              resp |-> response(200, [kind |-> "message", message |-> "deleted",
                                      id |-> ticket_id])]

(* db.session.delete(ticket): the row and its association rows go *)
delete_ticket(d, ticket_id) ==
    IF ticket_id \notin DOMAIN d.service_ticket
    THEN [db |-> d, resp |-> response(404, error_body("Service ticket not found."))]
    ELSE LET rows == {<<ticket_id, m>> : m \in ticket_mechanics(d, ticket_id)}
             out  == commit(d, [d EXCEPT
                        !.service_ticket = [i \in DOMAIN d.service_ticket \ {ticket_id} |->
                                               d.service_ticket[i]],
                        !.ticket_mechanic = delete_rows(@, rows)])
         IN  IF out.raised # "none"
             THEN [db |-> d, resp |-> internal_server_error(out.raised)]
             ELSE [db |-> out.db,
                   resp |-> response(200, [kind |-> "message", message |-> "deleted",
                                           id |-> ticket_id])]

(* ticket.mechanics.append(mechanic); db.session.commit() and the response,  *)
(* for a ticket and a mechanic that were loaded, the collection being       *)
(* loaded by the append                                                     *)
assign_loaded_mechanic(d, ticket_id, mechanic_id, loaded) ==
    LET out == commit(d, [d EXCEPT !.ticket_mechanic =
                   flush_mechanics(@, ticket_id, loaded, loaded \cup {mechanic_id})])
    IN  IF out.raised # "none"
        THEN [db |-> d, resp |-> internal_server_error(out.raised)]
        ELSE [db |-> out.db, resp |-> response(200, dump_ticket(out.db, ticket_id))]

(* assign_mechanic answering from the session without db.session.commit() *)
assign_mechanic_uncommitted(d, ticket_id, mechanic_id) ==
    IF ticket_id \notin DOMAIN d.service_ticket
    THEN [db |-> d, resp |-> response(404, error_body("Service ticket not found."))]
    ELSE IF mechanic_id \notin DOMAIN d.mechanic
    THEN [db |-> d, resp |-> response(404, error_body("Mechanic not found."))]
    ELSE LET held == [d EXCEPT !.ticket_mechanic =
                         flush_mechanics(@, ticket_id, ticket_mechanics(d, ticket_id),
                                         ticket_mechanics(d, ticket_id) \cup {mechanic_id})]
         IN  [db |-> d, resp |-> response(200, dump_ticket(held, ticket_id))]

(* assign_mechanic looking the mechanic up before the ticket *)
assign_mechanic_mechanic_first(d, ticket_id, mechanic_id) ==
    IF mechanic_id \notin DOMAIN d.mechanic
    THEN [db |-> d, resp |-> response(404, error_body("Mechanic not found."))]
    ELSE IF ticket_id \notin DOMAIN d.service_ticket
    THEN [db |-> d, resp |-> response(404, error_body("Service ticket not found."))]
    ELSE LET loaded == ticket_mechanics(d, ticket_id)
             out == commit(d, [d EXCEPT !.ticket_mechanic =
                        flush_mechanics(@, ticket_id, loaded, loaded \cup {mechanic_id})])
         IN  [db |-> out.db, resp |-> response(200, dump_ticket(out.db, ticket_id))]

(* assign_mechanic writing a row for every append, loaded or not *)
assign_mechanic_insert_always(d, ticket_id, mechanic_id) ==
    IF ticket_id \notin DOMAIN d.service_ticket
    THEN [db |-> d, resp |-> response(404, error_body("Service ticket not found."))]
    ELSE IF mechanic_id \notin DOMAIN d.mechanic
    THEN [db |-> d, resp |-> response(404, error_body("Mechanic not found."))]
    ELSE LET out == commit(d, [d EXCEPT !.ticket_mechanic =
                                   @ (+) SetToBag({<<ticket_id, mechanic_id>>})])
         IN  [db |-> out.db, resp |-> response(200, dump_ticket(out.db, ticket_id))]

(* assign_mechanic serializing the ticket as it was loaded, before the append *)
assign_mechanic_stale(d, ticket_id, mechanic_id) ==
    IF ticket_id \notin DOMAIN d.service_ticket
    THEN [db |-> d, resp |-> response(404, error_body("Service ticket not found."))]
    ELSE IF mechanic_id \notin DOMAIN d.mechanic
    THEN [db |-> d, resp |-> response(404, error_body("Mechanic not found."))]
    ELSE LET loaded == ticket_mechanics(d, ticket_id)
             out == commit(d, [d EXCEPT !.ticket_mechanic =
                        flush_mechanics(@, ticket_id, loaded, loaded \cup {mechanic_id})])
         IN  [db |-> out.db, resp |-> response(200, dump_ticket(d, ticket_id))]

(* ticket.mechanics.append(mechanic) *)
assign_mechanic(d, ticket_id, mechanic_id) ==
    IF ticket_id \notin DOMAIN d.service_ticket
    THEN [db |-> d, resp |-> response(404, error_body("Service ticket not found."))]
    ELSE IF mechanic_id \notin DOMAIN d.mechanic
    THEN [db |-> d, resp |-> response(404, error_body("Mechanic not found."))]
    ELSE assign_loaded_mechanic(d, ticket_id, mechanic_id, ticket_mechanics(d, ticket_id))

(* remove_mechanic without the membership test: list.remove of a mechanic    *)
(* that is not in the collection raises                                     *)
remove_mechanic_unguarded(d, ticket_id, mechanic_id) ==
    IF ticket_id \notin DOMAIN d.service_ticket
    THEN [db |-> d, resp |-> response(404, error_body("Service ticket not found."))]
    ELSE IF mechanic_id \notin DOMAIN d.mechanic
    THEN [db |-> d, resp |-> response(404, error_body("Mechanic not found."))]
    ELSE IF mechanic_id \in ticket_mechanics(d, ticket_id)
    THEN LET loaded == ticket_mechanics(d, ticket_id)
             out == commit(d, [d EXCEPT !.ticket_mechanic =
                        flush_mechanics(@, ticket_id, loaded, loaded \ {mechanic_id})])
         IN  [db |-> out.db, resp |-> response(200, dump_ticket(out.db, ticket_id))]
    ELSE [db |-> d, resp |-> internal_server_error("ValueError")]

(* remove_mechanic answering from the session without db.session.commit() *)
remove_mechanic_uncommitted(d, ticket_id, mechanic_id) ==
    IF ticket_id \notin DOMAIN d.service_ticket
    THEN [db |-> d, resp |-> response(404, error_body("Service ticket not found."))]
    ELSE IF mechanic_id \notin DOMAIN d.mechanic
    THEN [db |-> d, resp |-> response(404, error_body("Mechanic not found."))]
    ELSE LET loaded == ticket_mechanics(d, ticket_id)
             held == [d EXCEPT !.ticket_mechanic =
                         flush_mechanics(@, ticket_id, loaded, loaded \ {mechanic_id})]
         IN  [db |-> d, resp |-> response(200, dump_ticket(held, ticket_id))]

(* remove_mechanic emptying the collection instead of removing the mechanic *)
remove_mechanic_clear(d, ticket_id, mechanic_id) ==
    IF ticket_id \notin DOMAIN d.service_ticket
    THEN [db |-> d, resp |-> response(404, error_body("Service ticket not found."))]
    ELSE IF mechanic_id \notin DOMAIN d.mechanic
    THEN [db |-> d, resp |-> response(404, error_body("Mechanic not found."))]
    ELSE IF mechanic_id \in ticket_mechanics(d, ticket_id)
    THEN LET out == commit(d, [d EXCEPT !.ticket_mechanic =
                        flush_mechanics(@, ticket_id, ticket_mechanics(d, ticket_id), {})])
         IN  [db |-> out.db, resp |-> response(200, dump_ticket(out.db, ticket_id))]
    ELSE [db |-> d, resp |-> response(200, dump_ticket(d, ticket_id))]

(* ticket.mechanics.remove(mechanic) when the mechanic is in the collection *)
remove_mechanic(d, ticket_id, mechanic_id) ==
    IF ticket_id \notin DOMAIN d.service_ticket
    THEN [db |-> d, resp |-> response(404, error_body("Service ticket not found."))]
    ELSE IF mechanic_id \notin DOMAIN d.mechanic
    THEN [db |-> d, resp |-> response(404, error_body("Mechanic not found."))]
    ELSE IF mechanic_id \in ticket_mechanics(d, ticket_id)
    THEN LET loaded == ticket_mechanics(d, ticket_id)
             out == commit(d, [d EXCEPT !.ticket_mechanic =
                        flush_mechanics(@, ticket_id, loaded, loaded \ {mechanic_id})])
         IN  IF out.raised # "none"
             THEN [db |-> d, resp |-> internal_server_error(out.raised)]
             ELSE [db |-> out.db, resp |-> response(200, dump_ticket(out.db, ticket_id))]
    ELSE [db |-> d, resp |-> response(200, dump_ticket(d, ticket_id))]

----------------------------------------------------------------------------
(* Routing: the rules the route decorators register, in order.  The        *)
(* decorators of mechanic/routes.py are taken to register on the blueprint *)
(* the application mounts at /mechanics.                                   *)

RuleRoot == "/"
RuleMechanic == "/<int:mechanic_id>"
RuleTicket == "/<int:ticket_id>"
RuleAssign == "/<int:ticket_id>/assign-mechanic/<int:mechanic_id>"
RuleRemove == "/<int:ticket_id>/remove-mechanic/<int:mechanic_id>"

rule(bp, path, method, endpoint) ==
    [bp |-> bp, rule |-> path, methods |-> {method}, endpoint |-> endpoint]

url_map ==
    << rule("mechanics", RuleRoot, "POST", "create_mechanic"),
       rule("mechanics", RuleRoot, "GET", "get_mechanics"),
       rule("mechanics", RuleMechanic, "GET", "get_mechanic"),
       rule("mechanics", RuleMechanic, "GET", "update_mechanic"),
       rule("mechanics", RuleMechanic, "DELETE", "delete_mechanic"),
       rule("service-tickets", RuleRoot, "POST", "create_ticket"),
       rule("service-tickets", RuleRoot, "GET", "get_tickets"),
       rule("service-tickets", RuleTicket, "GET", "get_ticket"),
       rule("service-tickets", RuleTicket, "PUT", "update_ticket"),
       rule("service-tickets", RuleTicket, "DELETE", "delete_ticket"),
       rule("service-tickets", RuleAssign, "PUT", "assign_mechanic"),
       rule("service-tickets", RuleRemove, "PUT", "remove_mechanic") >>

(* the endpoint of the first rule that matches the path and allows the     *)
(* method; a path whose rules all refuse the method is a 405               *)
match(r) ==
    LET allowed == {i \in DOMAIN url_map :
                       /\ url_map[i].bp = r.bp
                       /\ url_map[i].rule = r.rule
                       /\ r.method \in url_map[i].methods}
    IN  IF allowed = {} THEN "MethodNotAllowed" ELSE url_map[Min(allowed)].endpoint

(* the view of the matched endpoint, called with the URL arguments *)
dispatch_request(d, r, session) ==
    LET endpoint == match(r)
    IN  CASE endpoint = "MethodNotAllowed" ->
                 [db |-> d, resp |-> response(405, [kind |-> "html"])]
          [] endpoint = "create_mechanic" -> create_mechanic(d, r.json, session)
          [] endpoint = "get_mechanics" -> get_mechanics(d)
          [] endpoint = "get_mechanic" -> get_mechanic(d, r.mechanic_id)
          [] endpoint = "update_mechanic" ->
                 update_mechanic(d, r.mechanic_id, r.json, session)
          [] endpoint = "delete_mechanic" -> delete_mechanic(d, r.mechanic_id)
          [] endpoint = "create_ticket" -> create_ticket(d, r.json, session)
          [] endpoint = "get_tickets" -> get_tickets(d)
          [] endpoint = "get_ticket" -> get_ticket(d, r.ticket_id)
          [] endpoint = "update_ticket" -> update_ticket(d, r.ticket_id, r.json, session)
          [] endpoint = "delete_ticket" -> delete_ticket(d, r.ticket_id)
          [] endpoint = "assign_mechanic" ->
                 assign_mechanic(d, r.ticket_id, r.mechanic_id)
          [] endpoint = "remove_mechanic" ->
                 remove_mechanic(d, r.ticket_id, r.mechanic_id)

----------------------------------------------------------------------------
(* Requests *)

NoRequest ==
    [method |-> "none", bp |-> "none", rule |-> "none",
     ticket_id |-> 0, mechanic_id |-> 0, json |-> EmptyBody]

request(method, bp, path, ticket_id, mechanic_id, json) ==
    [method |-> method, bp |-> bp, rule |-> path,
     ticket_id |-> ticket_id, mechanic_id |-> mechanic_id, json |-> json]

MechanicRequests ==
    {request("POST", "mechanics", RuleRoot, 0, 0, p) : p \in MechanicPayloads}
    \cup {request("GET", "mechanics", RuleRoot, 0, 0, EmptyBody)}
    \cup {request(m, "mechanics", RuleMechanic, 0, i, EmptyBody) :
             m \in {"GET", "DELETE"}, i \in MechanicIds}
    \cup {request("PUT", "mechanics", RuleMechanic, 0, i, p) :
             i \in MechanicIds, p \in MechanicPayloads}

TicketRequests ==
    {request("POST", "service-tickets", RuleRoot, 0, 0, p) : p \in TicketPayloads}
    \cup {request("GET", "service-tickets", RuleRoot, 0, 0, EmptyBody)}
    \cup {request(m, "service-tickets", RuleTicket, i, 0, EmptyBody) :
             m \in {"GET", "DELETE"}, i \in TicketIds}
    \cup {request("PUT", "service-tickets", RuleTicket, i, 0, p) :
             i \in TicketIds, p \in TicketPayloads}
    \cup {request("PUT", "service-tickets", path, t, m, EmptyBody) :
             path \in {RuleAssign, RuleRemove}, t \in TicketIds, m \in MechanicIds}

Requests == MechanicRequests \cup TicketRequests

(* the requests in flight at the same time: the server gives each request *)
(* a worker thread, which ends with the request                            *)
Workers == {"w1", "w2"}

(* a worker before its request has come in *)
Idle == [pc |-> "idle", req |-> NoRequest, loaded |-> {}, raced |-> FALSE,
         resp |-> NoResponse]

----------------------------------------------------------------------------
(* Actions *)

Init ==
    /\ db \in Databases
    /\ req = NoRequest
    /\ resp = NoResponse
    /\ pre = db
    /\ workers = [w \in Workers |-> Idle]

(* a client sends a request *)
Receive ==
    /\ req = NoRequest
    /\ req' \in Requests
    /\ UNCHANGED <<db, resp, pre, workers>>

(* the request in flight is for this method and rule *)
Pending(method, bp, path) ==
    /\ req.method = method /\ req.bp = bp /\ req.rule = path
    /\ resp = NoResponse

(* the request in flight is served: the matched view runs to its return or  *)
(* to the exception that leaves it                                          *)
Served ==
    /\ \E session \in SessionKinds :
          LET out == dispatch_request(db, req, session)
          IN  /\ DOMAIN out.db.mechanic \subseteq MechanicIds
              /\ DOMAIN out.db.service_ticket \subseteq TicketIds
              /\ db' = out.db
              /\ resp' = out.resp
    /\ pre' = db
    /\ UNCHANGED <<req, workers>>

PostMechanics ==
    /\ Pending("POST", "mechanics", RuleRoot)
    /\ Served

GetMechanics ==
    /\ Pending("GET", "mechanics", RuleRoot)
    /\ Served

GetMechanic ==
    /\ Pending("GET", "mechanics", RuleMechanic)
    /\ Served

PutMechanic ==
    /\ Pending("PUT", "mechanics", RuleMechanic)
    /\ Served

DeleteMechanic ==
    /\ Pending("DELETE", "mechanics", RuleMechanic)
    /\ Served

PostTickets ==
    /\ Pending("POST", "service-tickets", RuleRoot)
    /\ Served

GetTickets ==
    /\ Pending("GET", "service-tickets", RuleRoot)
    /\ Served

GetTicket ==
    /\ Pending("GET", "service-tickets", RuleTicket)
    /\ Served

PutTicket ==
    /\ Pending("PUT", "service-tickets", RuleTicket)
    /\ Served

DeleteTicket ==
    /\ Pending("DELETE", "service-tickets", RuleTicket)
    /\ Served

PutAssignMechanic ==
    /\ Pending("PUT", "service-tickets", RuleAssign)
    /\ Served

PutRemoveMechanic ==
    /\ Pending("PUT", "service-tickets", RuleRemove)
    /\ Served

(* the response goes out and the request context is torn down *)
Respond ==
    /\ resp # NoResponse
    /\ req' = NoRequest
    /\ resp' = NoResponse
    /\ pre' = db
    /\ UNCHANGED <<db, workers>>

Next ==
    \/ Receive
    \/ PostMechanics
    \/ GetMechanics
    \/ GetMechanic
    \/ PutMechanic
    \/ DeleteMechanic
    \/ PostTickets
    \/ GetTickets
    \/ GetTicket
    \/ PutTicket
    \/ DeleteTicket
    \/ PutAssignMechanic
    \/ PutRemoveMechanic
    \/ Respond

Spec == Init /\ [][Next]_vars

----------------------------------------------------------------------------
(* Two requests in flight.  A view reads when it loads and writes when it   *)
(* commits; between the two the other request may load or commit.  The     *)
(* store checks its constraints at each commit, against what is committed.  *)

ConcurrentPayloads ==
    {EmptyBody} \cup {[name |-> n, email |-> e] : n \in ShortNames, e \in ShortEmails}

ConcurrentRequests ==
    {request("POST", "mechanics", RuleRoot, 0, 0, p) : p \in ConcurrentPayloads}
    \cup {request("DELETE", "mechanics", RuleMechanic, 0, i, EmptyBody) : i \in MechanicIds}
    \cup {request("PUT", "service-tickets", RuleAssign, t, m, EmptyBody) :
             t \in TicketIds, m \in MechanicIds}

(* the stores the requests find: the status of a ticket plays no part in *)
(* the three views, so the tickets are left as they were opened          *)
ConcurrentDatabases ==
    {d \in Databases :
        \A t \in DOMAIN d.service_ticket : d.service_ticket[t].status = "open"}

InitConcurrent ==
    /\ db \in ConcurrentDatabases
    /\ req = NoRequest
    /\ resp = NoResponse
    /\ pre = db
    /\ workers = [w \in Workers |-> Idle]

(* worker w is at pc with a request the URL map dispatches to endpoint *)
At(w, pc, endpoint) ==
    workers[w].pc = pc /\ match(workers[w].req) = endpoint

Answer(w, out) ==
    /\ DOMAIN out.db.mechanic \subseteq MechanicIds
    /\ db' = out.db
    /\ workers' = [workers EXCEPT ![w].pc = "answered", ![w].resp = out.resp]

Accept(w) ==
    /\ workers[w].pc = "idle"
    /\ \E r \in ConcurrentRequests :
          workers' = [workers EXCEPT ![w].pc = "received", ![w].req = r]
    /\ UNCHANGED <<db, req, resp, pre>>

(* the other worker is past the validation of a Create for the same email *)
Races(w, o) ==
    /\ o # w
    /\ At(o, "loaded", "create_mechanic")
    /\ workers[o].req.json = workers[w].req.json

(* create_mechanic up to the return of mechanic_schema.load *)
CreateLoad(w) ==
    /\ At(w, "received", "create_mechanic")
    /\ \E session \in SessionKinds :
          LET data == load(MechanicSchema, workers[w].req.json, session)
          IN  IF data.raised # "none"
              THEN Answer(w, create_mechanic(db, workers[w].req.json, session))
              ELSE /\ workers' = [o \in Workers |->
                         IF o = w
                         THEN [workers[w] EXCEPT !.pc = "loaded",
                                 !.raced = \E x \in Workers : Races(w, x)]
                         ELSE IF Races(w, o)
                         THEN [workers[o] EXCEPT !.raced = TRUE]
                         ELSE workers[o]]
                   /\ UNCHANGED db
    /\ UNCHANGED <<req, resp, pre>>

(* create_mechanic from the construction of the Mechanic to its return *)
CreateCommit(w) ==
    /\ At(w, "loaded", "create_mechanic")
    /\ \E session \in SessionKinds :
          Answer(w, create_mechanic(db, workers[w].req.json, session))
    /\ UNCHANGED <<req, resp, pre>>

(* delete_mechanic up to db.session.delete: the mechanic is looked up *)
DeleteLoad(w) ==
    /\ At(w, "received", "delete_mechanic")
    /\ IF workers[w].req.mechanic_id \notin DOMAIN db.mechanic
       THEN Answer(w, delete_mechanic(db, workers[w].req.mechanic_id))
       ELSE /\ workers' = [workers EXCEPT ![w].pc = "loaded",
                              ![w].loaded = mechanic_tickets(db, workers[w].req.mechanic_id)]
            /\ UNCHANGED db
    /\ UNCHANGED <<req, resp, pre>>

(* delete_mechanic from db.session.commit(): the flush reads                *)
(* mechanic.tickets in its transaction, which sees the rows as they were    *)
(* when it began or as they are now, depending on the isolation level       *)
DeleteCommit(w) ==
    /\ At(w, "loaded", "delete_mechanic")
    /\ \E tickets \in {workers[w].loaded,
                        mechanic_tickets(db, workers[w].req.mechanic_id)} :
          Answer(w, delete_loaded_mechanic(db, workers[w].req.mechanic_id, tickets))
    /\ UNCHANGED <<req, resp, pre>>

(* assign_mechanic up to the append: both lookups, and the collection the   *)
(* append loads                                                             *)
AssignLoad(w) ==
    /\ At(w, "received", "assign_mechanic")
    /\ LET r == workers[w].req
       IN  IF r.ticket_id \notin DOMAIN db.service_ticket
              \/ r.mechanic_id \notin DOMAIN db.mechanic
           THEN Answer(w, assign_mechanic(db, r.ticket_id, r.mechanic_id))
           ELSE /\ workers' = [workers EXCEPT ![w].pc = "loaded",
                                  ![w].loaded = ticket_mechanics(db, r.ticket_id)]
                /\ UNCHANGED db
    /\ UNCHANGED <<req, resp, pre>>

(* assign_mechanic from db.session.commit() to its return *)
AssignCommit(w) ==
    /\ At(w, "loaded", "assign_mechanic")
    /\ LET r == workers[w].req
       IN  Answer(w, assign_loaded_mechanic(db, r.ticket_id, r.mechanic_id,
                                           workers[w].loaded))
    /\ UNCHANGED <<req, resp, pre>>

(* the response goes out and the session of the request is removed *)
Reply(w) ==
    /\ workers[w].pc = "answered"
    /\ workers' = [workers EXCEPT ![w] = [Idle EXCEPT !.pc = "done"]]
    /\ UNCHANGED <<db, req, resp, pre>>

NextConcurrent ==
    \E w \in Workers :
        \/ Accept(w)
        \/ CreateLoad(w)
        \/ CreateCommit(w)
        \/ DeleteLoad(w)
        \/ DeleteCommit(w)
        \/ AssignLoad(w)
        \/ AssignCommit(w)
        \/ Reply(w)

SpecConcurrent == InitConcurrent /\ [][NextConcurrent]_vars

----------------------------------------------------------------------------
(* Properties *)

(* a view has just answered the request in flight *)
Answered == resp # NoResponse

(* the step in which the request in flight is served *)
Serving == resp = NoResponse /\ resp' # NoResponse

IsRequest(method, bp, path) == req.method = method /\ req.bp = bp /\ req.rule = path

(* the email of the payload is held by a persisted mechanic other than id *)
EmailHeldByAnother(d, json, id) ==
    /\ "email" \in DOMAIN json
    /\ \E i \in DOMAIN d.mechanic \ {id} : d.mechanic[i].email = json.email

(* the fields of a payload that break the rules of the claim: a required    *)
(* field missing, or a string over its maximum length                       *)
BadMechanicFields(json) ==
    {k \in {"name", "email"} : k \notin DOMAIN json}
    \cup {k \in {"name"} \cap DOMAIN json : StrLen(json[k]) > 255}
    \cup {k \in {"email"} \cap DOMAIN json : StrLen(json[k]) > 360}

BadTicketFields(json) ==
    {k \in {"description"} : k \notin DOMAIN json}
    \cup {k \in {"description"} \cap DOMAIN json : StrLen(json[k]) > 300}

(* C1: in every reachable state no two persisted mechanics have the same   *)
(* email.                                                                  *)
C1_UniqueEmail ==
    \A i, j \in DOMAIN db.mechanic :
        i # j => db.mechanic[i].email # db.mechanic[j].email

(* a Create asking for an email in use was served with two mechanics stored *)
C1_Witness ==
    /\ Answered
    /\ IsRequest("POST", "mechanics", RuleRoot)
    /\ BadMechanicFields(req.json) = {}
    /\ EmailHeldByAnother(db, req.json, 0)
    /\ Cardinality(DOMAIN db.mechanic) = 2

(* C2: a Mechanic Create or Update whose email is held by another          *)
(* persisted mechanic fails and leaves the persisted state exactly as it   *)
(* was.                                                                    *)
C2_DuplicateEmailFails ==
    [][(/\ Serving
        /\ \/ /\ IsRequest("POST", "mechanics", RuleRoot)
              /\ EmailHeldByAnother(db, req.json, 0)
           \/ /\ IsRequest("PUT", "mechanics", RuleMechanic)
              /\ req.mechanic_id \in DOMAIN db.mechanic
              /\ EmailHeldByAnother(db, req.json, req.mechanic_id))
       => /\ resp'.status \notin {200, 201}
          /\ db' = db]_vars

(* an otherwise valid Create with the email of a stored mechanic failed *)
C2_Witness ==
    /\ Answered
    /\ IsRequest("POST", "mechanics", RuleRoot)
    /\ BadMechanicFields(req.json) = {}
    /\ EmailHeldByAnother(db, req.json, 0)
    /\ resp.status \notin {200, 201}

(* C3: every request a view is matched for ends in a response returned by  *)
(* the view (200 or 201, 400, 404); no exception leaves the view.          *)
C3_NoEscapingException ==
    (Answered /\ match(req) # "MethodNotAllowed")
        => resp.raised = "none" /\ resp.status \in {200, 201, 400, 404}

C4_WitnessTicket ==
    /\ Answered
    /\ IsRequest("POST", "service-tickets", RuleRoot)
    /\ "description" \in DOMAIN req.json
    /\ BadTicketFields(req.json) = {"description"}
    /\ resp.status = 400

(* a payload every field rule accepts *)
ValidMechanicPayload(json) == BadMechanicFields(json) = {}

ValidTicketPayload(json) == BadTicketFields(json) = {}

(* C5: a Create with a valid payload whose email is not in use returns 201 *)
(* with an assigned id, and a Get of that id then returns 200 with the     *)
(* payload's name and email under that id.                                 *)
C5_CreateThenGet ==
    [][(/\ Serving
        /\ IsRequest("POST", "mechanics", RuleRoot)
        /\ ValidMechanicPayload(req.json)
        /\ ~EmailHeldByAnother(db, req.json, 0))
       => /\ resp'.status = 201
          /\ resp'.body.kind = "mechanic"
          /\ LET got == get_mechanic(db', resp'.body.id).resp
             IN  /\ got.status = 200
                 /\ got.body.id = resp'.body.id
                 /\ got.body.name = req.json.name
                 /\ got.body.email = req.json.email]_vars

(* C6: GET, PUT and DELETE on the id of no persisted mechanic (ticket)     *)
(* each return 404 with an error body and leave the persisted state        *)
(* unchanged.                                                              *)
C6_NotFound404 ==
    [][(/\ Serving
        /\ req.method \in {"GET", "PUT", "DELETE"}
        /\ \/ /\ req.bp = "mechanics" /\ req.rule = RuleMechanic
              /\ req.mechanic_id \notin DOMAIN db.mechanic
           \/ /\ req.bp = "service-tickets" /\ req.rule = RuleTicket
              /\ req.ticket_id \notin DOMAIN db.service_ticket)
       => /\ resp'.status = 404
          /\ resp'.raised = "none"
          /\ resp'.body.kind = "error"
          /\ db' = db]_vars

(* C7: PUT /mechanics/{id} on an existing id with a valid payload whose    *)
(* email no other mechanic holds reaches update_mechanic and returns 200,  *)
(* and a Get of the id then returns the payload's name and email.          *)
C7_PutMechanicUpdates ==
    [][(/\ Serving
        /\ IsRequest("PUT", "mechanics", RuleMechanic)
        /\ req.mechanic_id \in DOMAIN db.mechanic
        /\ ValidMechanicPayload(req.json)
        /\ ~EmailHeldByAnother(db, req.json, req.mechanic_id))
       => /\ match(req) = "update_mechanic"
          /\ resp'.status = 200
          /\ LET got == get_mechanic(db', req.mechanic_id).resp
             IN  /\ got.status = 200
                 /\ got.body.id = req.mechanic_id
                 /\ got.body.name = req.json.name
                 /\ got.body.email = req.json.email]_vars

(* C8: PUT /service-tickets/{id} on an existing id with a valid payload    *)
(* returns 200, and a Get of the id then returns the payload's value for   *)
(* every field of the payload.                                             *)
C8_PutTicketUpdates ==
    [][(/\ Serving
        /\ IsRequest("PUT", "service-tickets", RuleTicket)
        /\ req.ticket_id \in DOMAIN db.service_ticket
        /\ ValidTicketPayload(req.json)
        /\ "id" \notin DOMAIN req.json)
       => /\ resp'.status = 200
          /\ LET got == get_ticket(db', req.ticket_id).resp
             IN  /\ got.status = 200
                 /\ got.body.id = req.ticket_id
                 /\ \A k \in DOMAIN req.json : got.body[k] = req.json[k]]_vars

(* C9: an Update of an existing mechanic or ticket whose payload omits a   *)
(* required field returns 400 and leaves the record unchanged.             *)
C9_PartialUpdate400 ==
    [][(/\ Serving
        /\ req.method = "PUT"
        /\ \/ /\ req.bp = "mechanics" /\ req.rule = RuleMechanic
              /\ req.mechanic_id \in DOMAIN db.mechanic
              /\ {"name", "email"} \ DOMAIN req.json # {}
           \/ /\ req.bp = "service-tickets" /\ req.rule = RuleTicket
              /\ req.ticket_id \in DOMAIN db.service_ticket
              /\ "description" \notin DOMAIN req.json)
       => /\ resp'.status = 400
          /\ db' = db]_vars

(* C10: a ticket Create with a valid payload without status returns 201,   *)
(* and the returned ticket and the ticket a Get then returns both have     *)
(* status "open".                                                          *)
C10_DefaultStatusOpen ==
    [][(/\ Serving
        /\ IsRequest("POST", "service-tickets", RuleRoot)
        /\ ValidTicketPayload(req.json)
        /\ DOMAIN req.json = {"description"})
       => /\ resp'.status = 201
          /\ resp'.body.kind = "service_ticket"
          /\ resp'.body.status = "open"
          /\ LET got == get_ticket(db', resp'.body.id).resp
             IN  got.status = 200 /\ got.body.status = "open"]_vars

(* the request in flight names a persisted ticket and a persisted mechanic *)
BothExist(d) ==
    /\ req.ticket_id \in DOMAIN d.service_ticket
    /\ req.mechanic_id \in DOMAIN d.mechanic

(* the request in flight is an assignment or a removal *)
IsRelationRequest ==
    req.method = "PUT" /\ req.bp = "service-tickets" /\ req.rule \in {RuleAssign, RuleRemove}

(* C11: AssignMechanic(t, m) on an existing ticket and an existing mechanic *)
(* returns 200, and a Get(t) right after it shows m among the ticket's      *)
(* mechanics, from every reachable state.                                   *)
C11_AssignThenGet ==
    [][(/\ Serving
        /\ IsRequest("PUT", "service-tickets", RuleAssign)
        /\ BothExist(db))
       => /\ resp'.status = 200
          /\ resp'.body.kind = "service_ticket"
          /\ LET got == get_ticket(db', req.ticket_id).resp
             IN  got.status = 200 /\ req.mechanic_id \in got.body.mechanics]_vars

(* a mechanic that was not assigned to the ticket was assigned to it *)
C11_Witness ==
    /\ Answered
    /\ IsRequest("PUT", "service-tickets", RuleAssign)
    /\ BothExist(pre)
    /\ req.mechanic_id \notin ticket_mechanics(pre, req.ticket_id)
    /\ resp.status = 200
    /\ req.mechanic_id \in ticket_mechanics(db, req.ticket_id)

(* C12: AssignMechanic and RemoveMechanic return 404 when the ticket or the *)
(* mechanic does not exist, the ticket checked first: the ticket error when *)
(* the ticket is absent, the mechanic error when only the mechanic is; the  *)
(* store is unchanged in both cases.                                        *)
C12_RelationNotFound ==
    [][(/\ Serving
        /\ IsRelationRequest
        /\ ~BothExist(db))
       => /\ resp'.status = 404
          /\ resp'.body.kind = "error"
          /\ resp'.body.error =
                IF req.ticket_id \notin DOMAIN db.service_ticket
                THEN "Service ticket not found." ELSE "Mechanic not found."
          /\ db' = db]_vars

(* an assignment naming neither a ticket nor a mechanic got the ticket error *)
C12_Witness ==
    /\ Answered
    /\ IsRequest("PUT", "service-tickets", RuleAssign)
    /\ req.ticket_id \notin DOMAIN pre.service_ticket
    /\ req.mechanic_id \notin DOMAIN pre.mechanic
    /\ resp.status = 404
    /\ resp.body.error = "Service ticket not found."

(* C13: RemoveMechanic(t, m) for an existing ticket and an existing         *)
(* mechanic that is not assigned to it returns 200 with the serialized      *)
(* ticket and changes nothing in the store.                                 *)
C13_RemoveUnassigned ==
    [][(/\ Serving
        /\ IsRequest("PUT", "service-tickets", RuleRemove)
        /\ BothExist(db)
        /\ req.mechanic_id \notin ticket_mechanics(db, req.ticket_id))
       => /\ resp'.status = 200
          /\ resp'.body = dump_ticket(db, req.ticket_id)
          /\ db' = db]_vars

(* a removal of a mechanic not assigned to a ticket that has another one *)
C13_Witness ==
    /\ Answered
    /\ IsRequest("PUT", "service-tickets", RuleRemove)
    /\ BothExist(pre)
    /\ req.mechanic_id \notin ticket_mechanics(pre, req.ticket_id)
    /\ ticket_mechanics(pre, req.ticket_id) # {}
    /\ resp.status = 200

(* C14: after a successful RemoveMechanic(t, m) on a mechanic assigned to t *)
(* the mechanic is in the ticket's mechanics neither in the 200 response    *)
(* nor in a Get(t) that follows, however often it had been assigned.        *)
C14_RemoveAssigned ==
    [][(/\ Serving
        /\ IsRequest("PUT", "service-tickets", RuleRemove)
        /\ BothExist(db)
        /\ req.mechanic_id \in ticket_mechanics(db, req.ticket_id)
        /\ resp'.status = 200)
       => /\ req.mechanic_id \notin resp'.body.mechanics
          /\ LET got == get_ticket(db', req.ticket_id).resp
             IN  got.status = 200 /\ req.mechanic_id \notin got.body.mechanics
          /\ CopiesIn(<<req.ticket_id, req.mechanic_id>>, db'.ticket_mechanic) = 0]_vars

(* an assigned mechanic was removed from a ticket that keeps another one *)
C14_Witness ==
    /\ Answered
    /\ IsRequest("PUT", "service-tickets", RuleRemove)
    /\ req.mechanic_id \in ticket_mechanics(pre, req.ticket_id)
    /\ resp.status = 200
    /\ req.mechanic_id \notin ticket_mechanics(db, req.ticket_id)
    /\ ticket_mechanics(db, req.ticket_id) # {}

(* C15: in every reachable state every association row names a persisted  *)
(* ticket and a persisted mechanic, so that no Get of a ticket returns a    *)
(* deleted mechanic.                                                        *)
C15_NoDanglingRows ==
    /\ \A row \in BagToSet(db.ticket_mechanic) :
          row[1] \in DOMAIN db.service_ticket /\ row[2] \in DOMAIN db.mechanic
    /\ \A t \in DOMAIN db.service_ticket :
          get_ticket(db, t).resp.body.mechanics \subseteq DOMAIN db.mechanic

(* a mechanic assigned to a ticket was deleted and the ticket is still there *)
C15_Witness ==
    /\ Answered
    /\ IsRequest("DELETE", "mechanics", RuleMechanic)
    /\ resp.status = 200
    /\ \E t \in mechanic_tickets(pre, req.mechanic_id) : t \in DOMAIN db.service_ticket

(* C16: Delete does not cascade: deleting a mechanic leaves every ticket    *)
(* persisted with its id, description and status, and deleting a ticket     *)
(* leaves every mechanic persisted with its id, name and email.             *)
C16_NoCascade ==
    [][(Serving /\ req.method = "DELETE")
       => /\ req.bp = "mechanics" => db'.service_ticket = db.service_ticket
          /\ req.bp = "service-tickets" => db'.mechanic = db.mechanic]_vars

(* a ticket with an assigned mechanic was deleted and the mechanic persists *)
C16_Witness ==
    /\ Answered
    /\ IsRequest("DELETE", "service-tickets", RuleTicket)
    /\ resp.status = 200
    /\ req.ticket_id \notin DOMAIN db.service_ticket
    /\ ticket_mechanics(pre, req.ticket_id) # {}
    /\ ticket_mechanics(pre, req.ticket_id) \subseteq DOMAIN db.mechanic

(* the ids of the entries of a List response *)
ListedIds(r) ==
    IF r.body.kind = "list" THEN {item.id : item \in r.body.items} ELSE {}

Pair == <<req.ticket_id, req.mechanic_id>>

(* C18: assigning an existing mechanic to an existing ticket it is already  *)
(* assigned to returns 200 again and leaves two association rows for the    *)
(* pair.                                                                    *)
C18_AssignTwiceTwoRows ==
    [][(/\ Serving
        /\ IsRequest("PUT", "service-tickets", RuleAssign)
        /\ BothExist(db)
        /\ CopiesIn(Pair, db.ticket_mechanic) = 1)
       => /\ resp'.status = 200
          /\ CopiesIn(Pair, db'.ticket_mechanic) = 2]_vars

(* C18, amended: assigning an existing mechanic to an existing ticket it is *)
(* already assigned to returns 200 again and leaves the store as it was,    *)
(* with one association row for the pair.                                   *)
C18_AssignTwiceOneRow ==
    [][(/\ Serving
        /\ IsRequest("PUT", "service-tickets", RuleAssign)
        /\ BothExist(db)
        /\ CopiesIn(Pair, db.ticket_mechanic) = 1)
       => /\ resp'.status = 200
          /\ req.mechanic_id \in resp'.body.mechanics
          /\ db' = db
          /\ CopiesIn(Pair, db'.ticket_mechanic) = 1]_vars

(* an assigned mechanic was assigned again and the pair is held once *)
C18_Witness ==
    /\ Answered
    /\ IsRequest("PUT", "service-tickets", RuleAssign)
    /\ BothExist(pre)
    /\ CopiesIn(Pair, pre.ticket_mechanic) = 1
    /\ resp.status = 200
    /\ CopiesIn(Pair, db.ticket_mechanic) = 1

(* C19: the id of a persisted mechanic or ticket never changes: a record    *)
(* stays under its id through every request but its own Delete, and an      *)
(* Update, also one whose payload holds another id, leaves the ids of both  *)
(* tables as they were.                                                     *)
C19_IdImmutable ==
    [][Serving
       => /\ \A i \in DOMAIN db.mechanic :
                \/ i \in DOMAIN db'.mechanic
                \/ IsRequest("DELETE", "mechanics", RuleMechanic) /\ req.mechanic_id = i
          /\ \A i \in DOMAIN db.service_ticket :
                \/ i \in DOMAIN db'.service_ticket
                \/ IsRequest("DELETE", "service-tickets", RuleTicket) /\ req.ticket_id = i
          /\ req.method = "PUT" =>
                /\ DOMAIN db'.mechanic = DOMAIN db.mechanic
                /\ DOMAIN db'.service_ticket = DOMAIN db.service_ticket]_vars

(* an Update of a ticket with a valid payload naming the id no ticket has   *)
(* was served and the ticket is still under its id                          *)
C19_Witness ==
    /\ Answered
    /\ IsRequest("PUT", "service-tickets", RuleTicket)
    /\ req.ticket_id \in DOMAIN pre.service_ticket
    /\ ValidTicketPayload(req.json)
    /\ "id" \in DOMAIN req.json
    /\ req.json.id # req.ticket_id
    /\ req.json.id \notin DOMAIN pre.service_ticket
    /\ DOMAIN db.service_ticket = {req.ticket_id}

C22_ListAll ==
    [][(Serving /\ req.method = "GET")
       => /\ db' = db
          /\ req.rule = RuleRoot =>
                /\ resp'.status = 200
                /\ resp'.body.kind = "list"
                /\ LET table == IF req.bp = "mechanics" THEN db.mechanic
                                ELSE db.service_ticket
                   IN  /\ ListedIds(resp') = DOMAIN table
                       /\ Cardinality(resp'.body.items) = Cardinality(DOMAIN table)]_vars

(* C23: the entity in the body of every successful Create, Update,          *)
(* AssignMechanic and RemoveMechanic response equals the entity a Get of    *)
(* the same id returns right after it, also after assigning a mechanic that *)
(* was assigned already.                                                    *)
C23_ResponseIsCurrent ==
    [][(/\ Serving
        /\ resp'.status \in {200, 201}
        /\ match(req) \in {"create_mechanic", "update_mechanic", "create_ticket",
                           "update_ticket", "assign_mechanic", "remove_mechanic"})
       => /\ resp'.body.kind \in {"mechanic", "service_ticket"}
          /\ resp'.body.kind = "mechanic" =>
                get_mechanic(db', resp'.body.id).resp = response(200, resp'.body)
          /\ resp'.body.kind = "service_ticket" =>
                get_ticket(db', resp'.body.id).resp = response(200, resp'.body)]_vars

(* a second mechanic was assigned to a ticket and the response shows both *)
C23_Witness ==
    /\ Answered
    /\ IsRequest("PUT", "service-tickets", RuleAssign)
    /\ resp.status = 200
    /\ req.mechanic_id \notin ticket_mechanics(pre, req.ticket_id)
    /\ ticket_mechanics(pre, req.ticket_id) # {}
    /\ resp.body.mechanics = ticket_mechanics(pre, req.ticket_id) \cup {req.mechanic_id}
    /\ get_ticket(db, req.ticket_id).resp.body = resp.body

(* C24: Update checks existence before it validates: with an invalid        *)
(* payload it returns 404 on an id that is not persisted and 400 on one     *)
(* that is, and the store is unchanged either way.                          *)
C24_UpdateExistenceFirst ==
    [][(/\ Serving
        /\ req.method = "PUT"
        /\ \/ /\ req.bp = "mechanics" /\ req.rule = RuleMechanic
              /\ BadMechanicFields(req.json) # {}
           \/ /\ req.bp = "service-tickets" /\ req.rule = RuleTicket
              /\ BadTicketFields(req.json) # {})
       => /\ resp'.status =
                IF \/ req.bp = "mechanics" /\ req.mechanic_id \in DOMAIN db.mechanic
                   \/ req.bp = "service-tickets"
                         /\ req.ticket_id \in DOMAIN db.service_ticket
                THEN 400 ELSE 404
          /\ db' = db]_vars

(* C25: a ticket Update whose valid payload omits status leaves the stored  *)
(* status as it was, and no field the payload omits is overwritten.         *)
C25_OmittedStatusKept ==
    [][(/\ Serving
        /\ IsRequest("PUT", "service-tickets", RuleTicket)
        /\ req.ticket_id \in DOMAIN db.service_ticket
        /\ ValidTicketPayload(req.json)
        /\ "status" \notin DOMAIN req.json)
       => /\ req.ticket_id \in DOMAIN db'.service_ticket
          /\ \A k \in {"description", "status"} \ DOMAIN req.json :
                db'.service_ticket[req.ticket_id][k] = db.service_ticket[req.ticket_id][k]
          /\ "mechanics" \notin DOMAIN req.json =>
                ticket_mechanics(db', req.ticket_id) = ticket_mechanics(db, req.ticket_id)]_vars

(* an Update with a description and no status was served on a closed ticket *)
(* and the ticket is still closed                                           *)
C25_Witness ==
    /\ Answered
    /\ IsRequest("PUT", "service-tickets", RuleTicket)
    /\ req.ticket_id \in DOMAIN pre.service_ticket
    /\ DOMAIN req.json = {"description"}
    /\ ValidTicketPayload(req.json)
    /\ pre.service_ticket[req.ticket_id].status = "closed"
    /\ db.service_ticket[req.ticket_id].status = "closed"

C27_RelationFrame ==
    [][(Serving /\ IsRelationRequest)
       => /\ db'.mechanic = db.mechanic
          /\ db'.service_ticket = db.service_ticket
          /\ \A row \in (TicketIds \X MechanicIds) \ {Pair} :
                CopiesIn(row, db'.ticket_mechanic) = CopiesIn(row, db.ticket_mechanic)]_vars

(* a mechanic was removed from a ticket while another ticket has mechanics *)
C27_Witness ==
    /\ Answered
    /\ IsRequest("PUT", "service-tickets", RuleRemove)
    /\ resp.status = 200
    /\ CopiesIn(Pair, pre.ticket_mechanic) = 1
    /\ CopiesIn(Pair, db.ticket_mechanic) = 0
    /\ \E t \in DOMAIN db.service_ticket \ {req.ticket_id} : ticket_mechanics(db, t) # {}
    /\ ticket_mechanics(db, req.ticket_id) # {}

----------------------------------------------------------------------------
(* Two requests in flight *)

IsCreate(w) == match(workers[w].req) = "create_mechanic"

(* both workers have answered a Create of one email, each having passed    *)
(* its validation before the other committed                               *)
RacedCreates(e) ==
    \A w \in Workers :
        /\ workers[w].pc = "answered"
        /\ IsCreate(w)
        /\ workers[w].raced
        /\ workers[w].req.json = [name |-> "Jo", email |-> e]

Holders(d, e) == {i \in DOMAIN d.mechanic : d.mechanic[i].email = e}

(* C21: when two Creates with the same valid email race, both passing     *)
(* their validation before either commits, exactly one mechanic with that *)
(* email is persisted and neither request ends in an unhandled fault      *)
C21_RacedCreatesOneWinner ==
    \A e \in ShortEmails :
        RacedCreates(e) =>
            /\ Cardinality(Holders(db, e)) = 1
            /\ \A w \in Workers :
                  /\ workers[w].resp.raised = "none"
                  /\ workers[w].resp.status \in {201, 400, 409}

====
